---- MODULE Spec2Model ----
(***************************************************************************)
(* The grant-management backend: the REST routes of server/routes.ts over  *)
(* the storage facade of server/storage.ts and the tables of               *)
(* shared/schema.ts.  Strings are sequences of one-character strings, so   *)
(* that trimming and ILIKE pattern matching are computed, not assumed.     *)
(***************************************************************************)
EXTENDS Integers, Sequences, FiniteSets, TLC

VARIABLES
    phase,         \* position of the process: "countries", "grants" (start-up) or "serving"
    pos,           \* start-up: 0 = at the "table empty" guard, k >= 1 = about to insert row k
    restarts,      \* number of process restarts so far
    seen,          \* the countries and grants tables as the current start-up run found them
    users,         \* users table: id -> row
    countries,     \* countries table, in insertion order
    grants,        \* grants table, in insertion order (id = insertion index)
    applications,  \* applications table, in insertion order (id = insertion index)
    grantAwards,   \* grant_awards table, in insertion order
    contactMessages, \* contact_messages table, in insertion order
    inflight,      \* handlers suspended at an await, with their locals
    last           \* the request answered last and its response, until the next request or change

vars == <<phase, pos, restarts, seen, users, countries, grants, applications,
          grantAwards, contactMessages, inflight, last>>

tables == <<users, countries, grants, applications, grantAwards, contactMessages>>

----------------------------------------------------------------------------
(* Bounds of the model *)

MaxRestarts == 2    \* process restarts
MaxAwards == 1      \* rows of grant_awards
MaxInFlight == 2    \* overlapping POST /api/applications handlers
MaxApps == 3        \* rows of applications when handlers overlap
MaxTotal == 40      \* rows of applications given to getGrantStats
MaxContacts == 1    \* rows of contact_messages

----------------------------------------------------------------------------
(* Strings *)

\* SQL NULL / JavaScript null or undefined, where a string may stand
NULL == <<"NULL">>

\* JavaScript undefined, where a string may stand: a field the caller left out
Undefined == <<"UNDEFINED">>

\* a JSON value that is not a string
NotAString == <<"NOT_A_STRING">>

Lower(c) ==
    CASE c = "A" -> "a"
      [] c = "B" -> "b"
      [] c = "C" -> "c"
      [] c = "Z" -> "z"
      [] OTHER -> c

LowerStr(s) == [i \in 1..Len(s) |-> Lower(s[i])]

RECURSIVE TrimStart(_)
TrimStart(s) ==
    IF s # <<>> /\ Head(s) = " " THEN TrimStart(Tail(s)) ELSE s

RECURSIVE TrimEnd(_)
TrimEnd(s) ==
    IF s # <<>> /\ s[Len(s)] = " " THEN TrimEnd(SubSeq(s, 1, Len(s) - 1)) ELSE s

Trim(s) == TrimEnd(TrimStart(s))

\* JavaScript truthiness of an optional string: null, undefined and "" are falsy
Truthy(s) == s # NULL /\ s # Undefined /\ s # <<>>

\* SQL CONCAT: a NULL argument counts as the empty string
Concat3(a, b, c) ==
    (IF a = NULL THEN <<>> ELSE a) \o b \o (IF c = NULL THEN <<>> ELSE c)

\* text LIKE pat, on lower-cased arguments: % any run, _ any one character,
\* backslash makes the next pattern character literal
RECURSIVE Like(_, _)
Like(text, pat) ==
    IF pat = <<>> THEN text = <<>>
    ELSE IF Head(pat) = "%" THEN
        Like(text, Tail(pat)) \/ (text # <<>> /\ Like(Tail(text), pat))
    ELSE IF Head(pat) = "_" THEN
        text # <<>> /\ Like(Tail(text), Tail(pat))
    ELSE IF Head(pat) = "\\" THEN
        /\ Len(pat) >= 2
        /\ text # <<>>
        /\ Head(text) = pat[2]
        /\ Like(Tail(text), Tail(Tail(pat)))
    ELSE
        text # <<>> /\ Head(text) = Head(pat) /\ Like(Tail(text), Tail(pat))

ILike(text, pat) == Like(LowerStr(text), LowerStr(pat))

\* the claim's notion of a match: plain case-insensitive substring containment
Contains(text, s) ==
    \E i \in 0..(Len(text) - Len(s)) :
        LowerStr(SubSeq(text, i + 1, i + Len(s))) = LowerStr(s)

----------------------------------------------------------------------------
(* IEEE-754 binary64 arithmetic, as far as getGrantStats uses it.  TLC's       *)
(* integers have 32 bits, so a 53-bit significand is a sequence of limbs in    *)
(* base 2^13, least significant limb first.                                    *)

Precision == 53
LimbBits == 13
Base == 8192

Pow2(n) == IF n = 0 THEN 1 ELSE 2 ^ n

Limb(a, i) == IF i \in DOMAIN a THEN a[i] ELSE 0

\* bit j of the number a, bit 0 the least significant
LimbBit(a, j) == (Limb(a, (j \div LimbBits) + 1) \div Pow2(j % LimbBits)) % 2

\* number of bits of a limb x
Width(x) == CHOOSE n \in 0..LimbBits : x < Pow2(n) /\ (n = 0 \/ x >= Pow2(n - 1))

\* number of bits of the number a
BitLen(a) ==
    IF \A i \in DOMAIN a : a[i] = 0 THEN 0
    ELSE LET top == CHOOSE i \in DOMAIN a : a[i] # 0 /\ \A j \in DOMAIN a : j > i => a[j] = 0
         IN  LimbBits * (top - 1) + Width(a[top])

\* floor(a / 2^n)
ShiftRight(a, n) ==
    LET q == n \div LimbBits
        r == n % LimbBits
    IN  [i \in 1..(IF Len(a) > q THEN Len(a) - q ELSE 0) |->
            (Limb(a, i + q) \div Pow2(r)) + (Limb(a, i + q + 1) % Pow2(r)) * Pow2(LimbBits - r)]

\* a * m + carry, for small m and carry
RECURSIVE MulSmall(_, _, _)
MulSmall(a, m, carry) ==
    IF a = <<>> THEN (IF carry = 0 THEN <<>> ELSE <<carry>>)
    ELSE <<(Head(a) * m + carry) % Base>> \o MulSmall(Tail(a), m, (Head(a) * m + carry) \div Base)

\* round-to-nearest, ties-to-even, of the integer a to Precision bits:
\* [m |-> the rounded significand, sh |-> the number of bits dropped]
RoundNearestEven(a) ==
    LET d == BitLen(a) - Precision
    IN  IF d <= 0 THEN [m |-> a, sh |-> 0]
        ELSE LET guard == LimbBit(a, d - 1) = 1
                 sticky == \E j \in 0..(d - 2) : LimbBit(a, j) = 1
                 odd == LimbBit(a, d) = 1
                 up == guard /\ (sticky \/ odd)
             IN  [m |-> MulSmall(ShiftRight(a, d), 1, IF up THEN 1 ELSE 0), sh |-> d]

\* the double nearest to s / t, for integers 0 < s < Base and 0 < t < Base:
\* [m |-> significand, e |-> exponent], of value m * 2^e.  The divisor is first
\* scaled by 2^n (n = 0 when s < 2 * t) so that the quotient lies in [1, 2), or below 1
DoubleDiv(s, u) ==
    LET n == IF s < u THEN 0
             ELSE CHOOSE j \in 0..LimbBits : u * Pow2(j) <= s /\ u * Pow2(j + 1) > s
        t == u * Pow2(n)
        k == CHOOSE j \in 0..LimbBits : s * Pow2(j) >= t /\ \A i \in 0..(j - 1) : s * Pow2(i) < t
        r0 == s * Pow2(k) - t
        r1 == (r0 * Base) % t
        r2 == (r1 * Base) % t
        r3 == (r2 * Base) % t
        r4 == (r3 * Base) % t
        q == << (r3 * Base) \div t, (r2 * Base) \div t, (r1 * Base) \div t,
                (r0 * Base) \div t, 1 >>
        up == 2 * r4 > t \/ (2 * r4 = t /\ q[1] % 2 = 1)
    IN  [m |-> MulSmall(q, 1, IF up THEN 1 ELSE 0), e |-> n - (Precision - 1) - k]

\* the double nearest to d * 100
DoubleTimes100(d) ==
    LET r == RoundNearestEven(MulSmall(d.m, 25, 0))
    IN  [m |-> r.m, e |-> d.e + 2 + r.sh]

\* Math.round of a positive double below 2^13: the nearest integer, a tie going up
MathRound(d) ==
    IF d.e >= 0 THEN Limb(d.m, 1) * Pow2(d.e)
    ELSE Limb(ShiftRight(d.m, 0 - d.e), 1) + LimbBit(d.m, 0 - d.e - 1)

\* the claim's arithmetic: round(100 * s / t) on exact rationals, a half going up
ExactPercent(s, t) == (200 * s + t) \div (2 * t)

----------------------------------------------------------------------------
(* Reference data and request inputs *)

Str_al == <<"a", "l">>
Str_Al == <<"A", "l">>
Str_Bo == <<"B", "o">>
Str_Cy == <<"C", "y">>
Str_lb == <<"l", " ", "b">>
Str_zz == <<"z", "z">>
Str_sp == <<" ">>
Str_pc == <<"%">>
Str_us == <<"a", "_">>
Str_bs == <<"\\", "a">>
Str_al_sp == <<"a", "l", " ">>
Str_e1 == <<"e1">>
Str_e2 == <<"e2">>

UserIds == {"u1", "u2"}

\* the profile claims the identity provider hands over for each subject
Claims(u) ==
    IF u = "u1" THEN [email |-> Str_e1, firstName |-> Str_Al, lastName |-> Str_Bo]
    ELSE [email |-> Str_e2, firstName |-> NULL, lastName |-> Str_Cy]

defaultCountries ==
    << [id |-> "usa",         code |-> "USA", active |-> TRUE],
       [id |-> "uk",          code |-> "GBR", active |-> TRUE],
       [id |-> "canada",      code |-> "CAN", active |-> TRUE],
       [id |-> "australia",   code |-> "AUS", active |-> TRUE],
       [id |-> "newzealand",  code |-> "NZL", active |-> TRUE],
       [id |-> "germany",     code |-> "DEU", active |-> TRUE],
       [id |-> "france",      code |-> "FRA", active |-> TRUE],
       [id |-> "japan",       code |-> "JPN", active |-> TRUE],
       [id |-> "southkorea",  code |-> "KOR", active |-> TRUE],
       [id |-> "singapore",   code |-> "SGP", active |-> TRUE],
       [id |-> "uae",         code |-> "ARE", active |-> TRUE],
       [id |-> "netherlands", code |-> "NLD", active |-> TRUE],
       [id |-> "sweden",      code |-> "SWE", active |-> TRUE],
       [id |-> "norway",      code |-> "NOR", active |-> TRUE] >>

sampleGrants ==
    << [category |-> "seniors",    countryId |-> "usa",         status |-> "active",
        totalSpots |-> 750,  availableSpots |-> 750],
       [category |-> "emergency",  countryId |-> "uk",          status |-> "active",
        totalSpots |-> 9999, availableSpots |-> 9999],
       [category |-> "homebuyer",  countryId |-> "australia",   status |-> "active",
        totalSpots |-> 1000, availableSpots |-> 1000],
       [category |-> "research",   countryId |-> "canada",      status |-> "active",
        totalSpots |-> 150,  availableSpots |-> 150],
       [category |-> "business",   countryId |-> "germany",     status |-> "active",
        totalSpots |-> 200,  availableSpots |-> 200],
       [category |-> "education",  countryId |-> "france",      status |-> "active",
        totalSpots |-> 500,  availableSpots |-> 500],
       [category |-> "housing",    countryId |-> "netherlands", status |-> "active",
        totalSpots |-> 50,   availableSpots |-> 50],
       [category |-> "innovation", countryId |-> "singapore",   status |-> "active",
        totalSpots |-> 100,  availableSpots |-> 100] >>

grantCategoryEnum ==
    {"education", "business", "healthcare", "housing", "emergency", "seniors",
     "research", "innovation", "homebuyer", "financial_relief"}

grantStatusEnum == {"active", "closed", "draft"}

applicationStatusEnum ==
    {"pending", "under_review", "qualified", "not_qualified", "selected", "awarded",
     "rejected"}

\* an absent query parameter
Absent == "ABSENT"

\* grant ids a request may name: the first seeded grant and an id no grant has
GrantIdInputs == {1, 99}

\* referralName values of POST /api/applications bodies
ReferralInputs == {NULL, Str_sp, Str_al, Str_zz, Str_pc}

\* referralName values of POST /api/check-referral bodies
CheckInputs ==
    {NULL, Undefined, NotAString, <<>>, Str_sp, Str_al, Str_lb, Str_zz, Str_pc, Str_us, Str_bs, Str_al_sp}

CountryParams == {Absent, "", "usa"}
CategoryParams == {Absent, "education", "seniors", "bogus"}

Range(f) == {f[i] : i \in DOMAIN f}

----------------------------------------------------------------------------
(* Start-up: registerRoutes awaits initializeCountries, then initializeGrants, *)
(* and only then registers the routes.  `fault` is a failure of the database   *)
(* statement the step runs.                                                    *)

\* the empty users table
NoUsers == [u \in {} |-> NULL]

NoResponse ==
    [req |-> [route |-> "none"], status |-> 0, body |-> [message |-> ""], ops |-> 0,
     handler |-> FALSE, threw |-> FALSE]

Idle == [pc |-> "idle"]

\* the locals `countries` and `grants` of the seeding routines, before they are read
NothingSeen ==
    [countries |-> <<>>, countriesRead |-> FALSE, grants |-> <<>>, grantsRead |-> FALSE]

NoneInFlight == \A h \in DOMAIN inflight : inflight[h] = Idle

\* variants of the guard: no guard at all, and a guard that asks for a complete table
IsEmpty_Always(rows) == TRUE

IsEmpty_Incomplete(rows) == Len(rows) < 8

\* the guard of both seeding routines: rows.length === 0
IsEmpty(rows) == Len(rows) = 0

\* PostgreSQL rejects the insert: primary key on id, unique on code
CountryConflict(rows, c) == \E r \in Range(rows) : r.id = c.id \/ r.code = c.code

createCountry(rows, c) == Append(rows, c)

\* PostgreSQL rejects the insert unless country_id references a row of countries
GrantForeignKeyOk(g) == \E c \in Range(countries) : c.id = g.countryId

\* id is gen_random_uuid(): always fresh, here the insertion index
createGrant(rows, g) ==
    Append(rows, [id |-> Len(rows) + 1, category |-> g.category, countryId |-> g.countryId,
                  status |-> g.status, totalSpots |-> g.totalSpots,
                  availableSpots |-> g.availableSpots])

\* variant: the routine lets the error escape, registerRoutes rejects and no route is
\* registered
SeedingCaught_Rethrown(next) == "aborted"

\* catch (error) { console.error(...) }: the seeding routine returns normally and
\* registerRoutes goes on with what comes next
SeedingCaught(next) == next

\* update grants set ...updates where id = id (of updates, the status)
updateGrant(rows, id, updates) ==
    [i \in DOMAIN rows |->
        IF rows[i].id = id THEN [rows[i] EXCEPT !.status = updates.status] ELSE rows[i]]

\* const countries = await storage.getAllCountries(); if (countries.length === 0)
InitializeCountriesGuard(fault) ==
    /\ phase = "countries" /\ pos = 0
    /\ IF fault THEN
          /\ phase' = SeedingCaught("grants") /\ pos' = 0
          /\ seen' = seen
       ELSE
          /\ seen' = [seen EXCEPT !.countries = countries, !.countriesRead = TRUE]
          /\ IF IsEmpty(countries) THEN phase' = phase /\ pos' = 1
             ELSE phase' = "grants" /\ pos' = 0
    /\ UNCHANGED <<restarts, tables, inflight, last>>

\* one turn of: for (const country of defaultCountries) await storage.createCountry(country)
InitializeCountriesInsert(fault) ==
    /\ phase = "countries" /\ pos >= 1
    /\ IF fault \/ CountryConflict(countries, defaultCountries[pos]) THEN
          \* the catch block logs the error: no rollback, no further insert
          /\ countries' = countries
          /\ phase' = SeedingCaught("grants") /\ pos' = 0
       ELSE
          /\ countries' = createCountry(countries, defaultCountries[pos])
          /\ IF pos < Len(defaultCountries) THEN phase' = phase /\ pos' = pos + 1
             ELSE phase' = "grants" /\ pos' = 0
    /\ UNCHANGED <<restarts, seen, users, grants, applications, grantAwards,
                   contactMessages, inflight, last>>

\* const grants = await storage.getAllGrants(); if (grants.length === 0)
InitializeGrantsGuard(fault) ==
    /\ phase = "grants" /\ pos = 0
    /\ IF fault THEN
          /\ phase' = SeedingCaught("serving") /\ pos' = 0
          /\ seen' = seen
       ELSE
          /\ seen' = [seen EXCEPT !.grants = grants, !.grantsRead = TRUE]
          /\ IF IsEmpty(grants) THEN phase' = phase /\ pos' = 1
             ELSE phase' = "serving" /\ pos' = 0
    /\ UNCHANGED <<restarts, tables, inflight, last>>

\* one turn of: for (const grant of sampleGrants) await storage.createGrant(grant)
InitializeGrantsInsert(fault) ==
    /\ phase = "grants" /\ pos >= 1
    /\ IF fault \/ ~GrantForeignKeyOk(sampleGrants[pos]) THEN
          /\ grants' = grants
          /\ phase' = SeedingCaught("serving") /\ pos' = 0
       ELSE
          /\ grants' = createGrant(grants, sampleGrants[pos])
          /\ IF pos < Len(sampleGrants) THEN phase' = phase /\ pos' = pos + 1
             ELSE phase' = "serving" /\ pos' = 0
    /\ UNCHANGED <<restarts, seen, users, countries, applications, grantAwards,
                   contactMessages, inflight, last>>

\* the process stops and starts again over the same database; suspended handlers are lost
Restart ==
    /\ phase = "serving"
    /\ restarts < MaxRestarts
    /\ restarts' = restarts + 1
    /\ phase' = "countries" /\ pos' = 0
    /\ seen' = NothingSeen
    /\ inflight' = [h \in DOMAIN inflight |-> Idle]
    /\ last' = NoResponse
    /\ UNCHANGED tables

Init ==
    /\ phase = "countries" /\ pos = 0 /\ restarts = 0
    /\ seen = NothingSeen
    /\ users = NoUsers
    /\ countries = <<>>
    /\ grants = <<>>
    /\ applications = <<>>
    /\ grantAwards = <<>>
    /\ contactMessages = <<>>
    /\ inflight = [h \in 1..MaxInFlight |-> Idle]
    /\ last = NoResponse


----------------------------------------------------------------------------
(* The storage facade (DatabaseStorage) *)

\* a column of the row written by values({...userData, id}) or, on conflict, by
\* set({...userData}): a field left undefined takes the column default (NULL) on
\* insert and keeps the stored value on update
Column(rows, id, given, old) ==
    IF given # Undefined THEN given
    ELSE IF id \in DOMAIN rows THEN old ELSE NULL

UserRow(rows, id, userData) ==
    LET old == IF id \in DOMAIN rows THEN rows[id]
               ELSE [id |-> id, email |-> NULL, firstName |-> NULL, lastName |-> NULL]
    IN  [id |-> id,
         email |-> Column(rows, id, userData.email, old.email),
         firstName |-> Column(rows, id, userData.firstName, old.firstName),
         lastName |-> Column(rows, id, userData.lastName, old.lastName)]

\* users.email is unique(): PostgreSQL rejects the statement when another row
\* holds the same non-null email; ON CONFLICT (id) covers the primary key only
EmailConflict(rows, row) ==
    /\ row.email # NULL
    /\ \E x \in DOMAIN rows : x # row.id /\ rows[x].email = row.email

\* INSERT ... ON CONFLICT (id) DO UPDATE
upsertUser(rows, id, userData) ==
    [x \in DOMAIN rows \cup {id} |->
        IF x = id THEN UserRow(rows, id, userData) ELSE rows[x]]

\* select from users where id = id
getUser(id) == IF id \in DOMAIN users THEN users[id] ELSE Undefined

\* CONCAT(users.first_name, ' ', users.last_name) of the award's user (LEFT JOIN)
RecipientName(award) ==
    IF award.userId \in DOMAIN users
    THEN Concat3(users[award.userId].firstName, <<" ">>, users[award.userId].lastName)
    ELSE Concat3(NULL, <<" ">>, NULL)

\* variant: the name is looked up among all users, not among the award recipients
checkReferralExists_AnyUser(referralName) ==
    Cardinality({u \in DOMAIN users :
        ILike(Concat3(users[u].firstName, <<" ">>, users[u].lastName),
              <<"%">> \o referralName \o <<"%">>)}) > 0

\* count(*) ... WHERE CONCAT(...) ILIKE '%' + referralName + '%' ; count > 0
checkReferralExists(referralName) ==
    Cardinality({i \in DOMAIN grantAwards :
        ILike(RecipientName(grantAwards[i]), <<"%">> \o referralName \o <<"%">>)}) > 0

\* variant: count > 1
checkUserHasAppliedToGrant_OffByOne(userId, grantId) ==
    Cardinality({i \in DOMAIN applications :
        applications[i].userId = userId /\ applications[i].grantId = grantId}) > 1

\* variant: only applications still pending count
checkUserHasAppliedToGrant_PendingOnly(userId, grantId) ==
    Cardinality({i \in DOMAIN applications :
        /\ applications[i].userId = userId /\ applications[i].grantId = grantId
        /\ applications[i].status = "pending"}) > 0

\* count(*) ... WHERE user_id = userId AND grant_id = grantId ; count > 0
checkUserHasAppliedToGrant(userId, grantId) ==
    Cardinality({i \in DOMAIN applications :
        applications[i].userId = userId /\ applications[i].grantId = grantId}) > 0

\* variant: a unique constraint on (user_id, grant_id)
ApplicationInsertOk_Unique(rows, a) ==
    /\ \E g \in Range(grants) : g.id = a.grantId
    /\ a.userId \in DOMAIN users
    /\ ~\E r \in Range(rows) : r.userId = a.userId /\ r.grantId = a.grantId

\* PostgreSQL rejects the insert unless grant_id and user_id reference existing rows;
\* the table has no unique constraint on (user_id, grant_id)
ApplicationInsertOk(rows, a) ==
    /\ \E g \in Range(grants) : g.id = a.grantId
    /\ a.userId \in DOMAIN users

\* variant: the insert runs twice
createApplication_Twice(rows, a) ==
    LET row(n) == [id |-> n, grantId |-> a.grantId, userId |-> a.userId,
                   referralName |-> a.referralName, hasReferral |-> a.hasReferral,
                   autoQualified |-> a.autoQualified, status |-> a.status]
    IN  Append(Append(rows, row(Len(rows) + 1)), row(Len(rows) + 2))

createApplication(rows, a) ==
    Append(rows, [id |-> Len(rows) + 1, grantId |-> a.grantId, userId |-> a.userId,
                  referralName |-> a.referralName, hasReferral |-> a.hasReferral,
                  autoQualified |-> a.autoQualified, status |-> a.status])

\* update applications set ...updates where id = id (of updates, the status)
updateApplication(rows, id, updates) ==
    [i \in DOMAIN rows |->
        IF rows[i].id = id THEN [rows[i] EXCEPT !.status = updates.status] ELSE rows[i]]

createGrantAward(rows, w) ==
    Append(rows, [id |-> Len(rows) + 1, grantId |-> w.grantId,
                  applicationId |-> w.applicationId, userId |-> w.userId,
                  amount |-> w.amount])

\* grants LEFT JOIN countries
WithCountry(g) ==
    [id |-> g.id, category |-> g.category, countryId |-> g.countryId, status |-> g.status,
     totalSpots |-> g.totalSpots, availableSpots |-> g.availableSpots,
     countries |-> IF \E c \in Range(countries) : c.id = g.countryId
                   THEN CHOOSE c \in Range(countries) : c.id = g.countryId
                   ELSE [id |-> "null"]]

\* ORDER BY created_at DESC: the row inserted last comes first
NewestFirst(rows) == [i \in 1..Len(rows) |-> rows[Len(rows) + 1 - i]]

IsCountry(g, countryId) == g.countryId = countryId

IsCategory(g, category) == g.category = category

\* variant: only active grants are listed
getAllGrants_ActiveOnly ==
    LET Test(g) == g.status = "active"
    IN  NewestFirst([i \in DOMAIN SelectSeq(grants, Test) |->
                        WithCountry(SelectSeq(grants, Test)[i])])

getAllGrants == NewestFirst([i \in DOMAIN grants |-> WithCountry(grants[i])])

getGrantsByCountry(countryId) ==
    LET Test(g) == IsCountry(g, countryId) IN SelectSeq(getAllGrants, Test)

getGrantsByCategory(category) ==
    LET Test(g) == IsCategory(g, category) IN SelectSeq(getAllGrants, Test)

\* the result of a select that found no row: const [result] = [] is undefined
NoRow == [missing |-> TRUE]

IsMissing(row) == "missing" \in DOMAIN row

\* select ... from countries where active = true (the order by name is not modelled:
\* the rows are given as a set)
getActiveCountries == {c \in Range(countries) : c.active}

\* grants LEFT JOIN countries WHERE grants.id = id
getGrantById(id) ==
    IF \E g \in Range(grants) : g.id = id
    THEN WithCountry(CHOOSE g \in Range(grants) : g.id = id)
    ELSE NoRow

\* an applications row joined with its grant, the grant's country and its user
WithDetails(a) ==
    [id |-> a.id, grantId |-> a.grantId, userId |-> a.userId,
     referralName |-> a.referralName, hasReferral |-> a.hasReferral,
     autoQualified |-> a.autoQualified, status |-> a.status,
     grant |-> WithCountry(CHOOSE g \in Range(grants) : g.id = a.grantId),
     user |-> users[a.userId]]

\* applications LEFT JOIN grants LEFT JOIN countries LEFT JOIN users WHERE id = id
getApplicationById(id) ==
    IF id \in DOMAIN applications THEN WithDetails(applications[id]) ELSE NoRow

\* variant: the where clause is left out
getApplicationsByUser_All(userId) ==
    NewestFirst([i \in DOMAIN applications |-> WithDetails(applications[i])])

\* ... WHERE applications.user_id = userId ORDER BY submitted_at DESC
getApplicationsByUser(userId) ==
    LET Test(a) == a.userId = userId
    IN  NewestFirst([i \in DOMAIN SelectSeq(applications, Test) |->
                        WithDetails(SelectSeq(applications, Test)[i])])

\* select from grant_awards WHERE user_id = userId ORDER BY awarded_at DESC
getAwardsByUser(userId) ==
    LET Test(w) == w.userId = userId IN NewestFirst(SelectSeq(grantAwards, Test))

\* id is gen_random_uuid(), here the insertion index; status takes its default 'new'
createContactMessage(rows, m) ==
    Append(rows, [id |-> Len(rows) + 1, firstName |-> m.firstName,
                  message |-> m.message, status |-> "new"])

RECURSIVE SumAmounts(_)
SumAmounts(rows) == IF rows = <<>> THEN 0 ELSE Head(rows).amount + SumAmounts(Tail(rows))

\* count() over the rows whose indices are given
CountRows(indices) == Cardinality(indices)

\* Math.round(total > 0 ? (selected / total) * 100 : 0)
SuccessRate(selected, total) ==
    IF total > 0 /\ selected > 0
    THEN MathRound(DoubleTimes100(DoubleDiv(selected, total)))
    ELSE 0

\* variant: recipients are counted once each
getGrantStats_DistinctRecipients ==
    LET active == {i \in DOMAIN countries : countries[i].active}
        selected == {i \in DOMAIN applications : applications[i].status = "selected"}
    IN  [totalGrantsDistributed |-> SumAmounts(grantAwards),
         totalRecipients |-> Cardinality({grantAwards[i].userId : i \in DOMAIN grantAwards}),
         totalCountries |-> CountRows(active),
         successRate |-> SuccessRate(CountRows(selected), Len(applications))]

getGrantStats ==
    LET active == {i \in DOMAIN countries : countries[i].active}
        selected == {i \in DOMAIN applications : applications[i].status = "selected"}
    IN  [totalGrantsDistributed |-> SumAmounts(grantAwards),
         totalRecipients |-> Len(grantAwards),
         totalCountries |-> CountRows(active),
         successRate |-> SuccessRate(CountRows(selected), Len(applications))]

\* the five statements of getGrantStats, each awaited on its own: the sum and the
\* count of grant_awards, the count of active countries, the count of applications,
\* the count of selected applications
StatsQuery(n) ==
    CASE n = 1 -> SumAmounts(grantAwards)
      [] n = 2 -> Len(grantAwards)
      [] n = 3 -> CountRows({i \in DOMAIN countries : countries[i].active})
      [] n = 4 -> Len(applications)
      [] n = 5 -> CountRows({i \in DOMAIN applications :
                                applications[i].status = "selected"})

\* the value getGrantStats returns, from the results of its five statements
StatsResult(results) ==
    [totalGrantsDistributed |-> results[1],
     totalRecipients |-> results[2],
     totalCountries |-> results[3],
     successRate |-> SuccessRate(results[5], results[4])]

----------------------------------------------------------------------------
(* The routes.  A handler that awaits one storage call is one action; the     *)
(* POST /api/applications handler awaits up to three, and is one action per   *)
(* await, its locals kept in inflight[h] in between.                          *)

\* variant: the routes are registered before the seeding routines are awaited
Serving_BeforeSeeding == TRUE

\* a handler runs only once registerRoutes has returned and the server listens
Serving == phase = "serving"

\* the response a handler sends: `ops` counts the storage operations it ran (the one
\* that threw included), `threw` tells that one of them threw
Response(req, status, body, ops, threw) ==
    [req |-> req, status |-> status, body |-> body, ops |-> ops, handler |-> TRUE,
     threw |-> threw]

\* the message of each handler's catch block
FailureMessage(route) ==
    CASE route = "GET /api/auth/user"        -> "Failed to fetch user"
      [] route = "GET /api/countries"        -> "Failed to fetch countries"
      [] route = "GET /api/grants"           -> "Failed to fetch grants"
      [] route = "GET /api/grants/:id"       -> "Failed to fetch grant"
      [] route = "GET /api/stats"            -> "Failed to fetch statistics"
      [] route = "POST /api/contact"         -> "Failed to send message"
      [] route = "POST /api/check-referral"  -> "Failed to check referral status"
      [] route = "GET /api/applications"     -> "Failed to fetch applications"
      [] route = "POST /api/applications"    -> "Failed to submit application"
      [] route = "GET /api/applications/:id" -> "Failed to fetch application"
      [] route = "GET /api/awards"           -> "Failed to fetch awards"

\* variant: a handler without try/catch, the exception escapes and nothing is sent
Caught_Escapes(req, ops) == Response(req, 0, [message |-> ""], ops, TRUE)

\* catch (error) { ...; res.status(500).json({ message }) } for an error that is not
\* a ZodError
Caught(req, ops) == Response(req, 500, [message |-> FailureMessage(req.route)], ops, TRUE)

\* catch (error) { if (error instanceof z.ZodError) return res.status(400)... }
Invalid(req) == Response(req, 400, [message |-> "Validation error"], 0, FALSE)

\* the session's user: the login callback has upserted the row
Authenticated(u) == u \in DOMAIN users

\* the identity provider's callback: storage.upsertUser(claims.sub, claims)
Login(u) ==
    /\ Serving
    /\ IF EmailConflict(users, UserRow(users, u, Claims(u)))
       THEN users' = users
       ELSE users' = upsertUser(users, u, Claims(u))
    /\ last' = NoResponse
    /\ UNCHANGED <<phase, pos, restarts, seen, countries, grants, applications,
                   grantAwards, contactMessages, inflight>>

\* one call of storage.upsertUser(id, userData) by the login callback, with the
\* profile the identity provider hands over at that time; `threw` tells that
\* PostgreSQL rejected the statement
UpsertUserCall(u, userData) ==
    /\ Serving
    /\ LET req == [route |-> "upsertUser", user |-> u, userData |-> userData]
           threw == EmailConflict(users, UserRow(users, u, userData))
       IN  /\ users' = IF threw THEN users ELSE upsertUser(users, u, userData)
           /\ last' = [req |-> req, status |-> 0, body |-> [message |-> ""], ops |-> 1,
                       handler |-> FALSE, threw |-> threw]
    /\ UNCHANGED <<phase, pos, restarts, seen, countries, grants, applications,
                   grantAwards, contactMessages, inflight>>

\* an award recorded for an application, outside the REST surface
RecordAward(appId, u, amount) ==
    /\ Serving
    /\ Len(grantAwards) < MaxAwards
    /\ appId \in DOMAIN applications
    /\ Authenticated(u)
    /\ grantAwards' = createGrantAward(grantAwards,
            [grantId |-> applications[appId].grantId, applicationId |-> appId,
             userId |-> u, amount |-> amount])
    /\ last' = NoResponse
    /\ UNCHANGED <<phase, pos, restarts, seen, users, countries, grants, applications,
                   contactMessages, inflight>>

\* if (applicationData.referralName && applicationData.referralName.trim())
ReferralGiven(referralName) == Truthy(referralName) /\ Truthy(Trim(referralName))

\* variant: the draw decides also after a referral was found
Qualified_DrawAlways(autoQualified, draw) == draw

\* Math.random() > 0.3, drawn only when the referral did not qualify
Qualified(autoQualified, draw) == IF ~autoQualified THEN draw ELSE TRUE

\* variant: the status is left to the column default
StatusOf_Default(autoQualified) == IF autoQualified THEN "qualified" ELSE "pending"

\* status: autoQualified ? 'qualified' : 'not_qualified'
StatusOf(autoQualified) == IF autoQualified THEN "qualified" ELSE "not_qualified"

\* variant: no validation
insertApplicationSchema_Any(body) == TRUE

\* insertApplicationSchema.parse(req.body): user_id and the applicant's columns
\* (full_name standing for full_name, email, phone, address, reason_for_applying)
\* are NOT NULL without default, so the body must carry them; has_referral,
\* auto_qualified and status have defaults, so the body may carry them or not
insertApplicationSchema(body) ==
    /\ body.userId # Absent /\ body.fullName # Undefined
    /\ "hasReferral" \in DOMAIN body => body.hasReferral \in BOOLEAN
    /\ "autoQualified" \in DOMAIN body => body.autoQualified \in BOOLEAN
    /\ "status" \in DOMAIN body => body.status \in applicationStatusEnum

\* variant: { userId, hasReferral, autoQualified, status, ...applicationData }, the
\* body's fields written last
ApplicationValues_BodyWins(body, userId, hasReferral, autoQualified) ==
    [grantId |-> body.grantId, userId |-> body.userId, referralName |-> body.referralName,
     hasReferral |-> IF "hasReferral" \in DOMAIN body THEN body.hasReferral ELSE hasReferral,
     autoQualified |-> IF "autoQualified" \in DOMAIN body THEN body.autoQualified
                       ELSE autoQualified,
     status |-> IF "status" \in DOMAIN body THEN body.status ELSE StatusOf(autoQualified)]

\* { ...applicationData, userId, hasReferral, autoQualified, status: ... }: the
\* handler's values are written after the body's and replace them
ApplicationValues(body, userId, hasReferral, autoQualified) ==
    [grantId |-> body.grantId, userId |-> userId, referralName |-> body.referralName,
     hasReferral |-> hasReferral, autoQualified |-> autoQualified,
     status |-> StatusOf(autoQualified)]

PostRequest(u, body) ==
    [route |-> "POST /api/applications", user |-> u, grantId |-> body.grantId,
     referralName |-> body.referralName, bodyUserId |-> body.userId,
     fullName |-> body.fullName, body |-> body]

\* POST /api/applications up to the first await: parse, then the duplicate check
PostApplicationsCheck(h, u, body, fault) ==
    /\ Serving
    /\ Authenticated(u)
    /\ inflight[h] = Idle
    /\ IF ~insertApplicationSchema(body) THEN
          /\ last' = Invalid(PostRequest(u, body))
          /\ inflight' = inflight
       ELSE IF fault THEN
          /\ last' = Caught(PostRequest(u, body), 1)
          /\ inflight' = inflight
       ELSE IF checkUserHasAppliedToGrant(u, body.grantId) THEN
          /\ last' = Response(PostRequest(u, body), 400,
                              [message |-> "You have already applied to this grant"],
                              1, FALSE)
          /\ inflight' = inflight
       ELSE
          /\ inflight' = [inflight EXCEPT ![h] =
                [pc |-> "checked", user |-> u, grantId |-> body.grantId,
                 referralName |-> body.referralName, bodyUserId |-> body.userId,
                 fullName |-> body.fullName, body |-> body,
                 hasReferral |-> FALSE, autoQualified |-> FALSE, ops |-> 1]]
          /\ last' = NoResponse
    /\ UNCHANGED <<phase, pos, restarts, seen, tables>>

\* the request of the handler suspended in slot h
SuspendedRequest(h) ==
    [route |-> "POST /api/applications", user |-> inflight[h].user,
     grantId |-> inflight[h].grantId, referralName |-> inflight[h].referralName,
     bodyUserId |-> inflight[h].bodyUserId, fullName |-> inflight[h].fullName,
     body |-> inflight[h].body]

\* hasReferral = await storage.checkReferralExists(referralName); autoQualified = hasReferral
PostApplicationsReferral(h, fault) ==
    /\ Serving
    /\ inflight[h].pc = "checked"
    /\ ReferralGiven(inflight[h].referralName)
    /\ IF fault THEN
          /\ last' = Caught(SuspendedRequest(h), inflight[h].ops + 1)
          /\ inflight' = [inflight EXCEPT ![h] = Idle]
       ELSE
          /\ inflight' = [inflight EXCEPT ![h] =
                [@ EXCEPT !.pc = "looked",
                          !.hasReferral = checkReferralExists(inflight[h].referralName),
                          !.autoQualified = checkReferralExists(inflight[h].referralName),
                          !.ops = @ + 1]]
          /\ last' = last
    /\ UNCHANGED <<phase, pos, restarts, seen, tables>>

\* the random draw, await storage.createApplication(...), and the response
PostApplicationsCreate(h, draw, fault) ==
    /\ Serving
    /\ \/ inflight[h].pc = "looked"
       \/ inflight[h].pc = "checked" /\ ~ReferralGiven(inflight[h].referralName)
    /\ LET loc == inflight[h]
           autoQualified == Qualified(loc.autoQualified, draw)
           a == ApplicationValues(loc.body, loc.user, loc.hasReferral, autoQualified)
       IN  IF ~fault /\ ApplicationInsertOk(applications, a) THEN
              /\ applications' = createApplication(applications, a)
              /\ last' = Response(SuspendedRequest(h), 201,
                                  [application |-> applications'[Len(applications')],
                                   qualified |-> autoQualified,
                                   drawn |-> ~loc.autoQualified],
                                  loc.ops + 1, FALSE)
           ELSE
              /\ applications' = applications
              /\ last' = Caught(SuspendedRequest(h), loc.ops + 1)
    /\ inflight' = [inflight EXCEPT ![h] = Idle]
    /\ UNCHANGED <<phase, pos, restarts, seen, users, countries, grants, grantAwards,
                   contactMessages>>

\* POST /api/check-referral
PostCheckReferral(referralName, fault) ==
    /\ Serving
    /\ LET req == [route |-> "POST /api/check-referral", referralName |-> referralName]
       IN  IF ~Truthy(referralName) \/ referralName = NotAString THEN
              last' = Response(req, 400, [message |-> "Referral name is required"], 0, FALSE)
           ELSE IF fault THEN
              last' = Caught(req, 1)
           ELSE
              last' = Response(req, 200,
                               [exists |-> checkReferralExists(referralName),
                                autoQualified |-> checkReferralExists(referralName)],
                               1, FALSE)
    /\ UNCHANGED <<phase, pos, restarts, seen, tables, inflight>>

\* variant: no validation
insertContactMessageSchema_Any(body) == TRUE

\* insertContactMessageSchema.parse(req.body): first_name and message (standing for
\* first_name, last_name, email, subject, message) are NOT NULL strings
insertContactMessageSchema(body) ==
    /\ body.firstName \notin {Undefined, NULL, NotAString}
    /\ body.message \notin {Undefined, NULL, NotAString}

\* POST /api/contact
PostContact(body, fault) ==
    /\ Serving
    /\ Len(contactMessages) < MaxContacts
    /\ LET req == [route |-> "POST /api/contact", body |-> body]
       IN  IF ~insertContactMessageSchema(body) THEN
              /\ last' = Invalid(req)
              /\ contactMessages' = contactMessages
           ELSE IF fault THEN
              /\ last' = Caught(req, 1)
              /\ contactMessages' = contactMessages
           ELSE
              /\ contactMessages' = createContactMessage(contactMessages, body)
              /\ last' = Response(req, 201,
                                  [message |-> "Message sent successfully",
                                   id |-> Len(contactMessages')], 1, FALSE)
    /\ UNCHANGED <<phase, pos, restarts, seen, users, countries, grants, applications,
                   grantAwards, inflight>>

\* a query parameter that is present and not the empty string
ParamGiven(p) == p # Absent /\ p # ""

\* GET /api/grants?country=&category=
GetGrants(country, category, fault) ==
    /\ Serving
    /\ LET req == [route |-> "GET /api/grants", country |-> country, category |-> category]
       IN  IF fault THEN
              last' = Caught(req, 1)
           ELSE IF ParamGiven(country) THEN
              last' = Response(req, 200, getGrantsByCountry(country), 1, FALSE)
           ELSE IF ParamGiven(category) THEN
              \* a value outside grant_category makes the query fail
              IF category \in grantCategoryEnum THEN
                 last' = Response(req, 200, getGrantsByCategory(category), 1, FALSE)
              ELSE
                 last' = Caught(req, 1)
           ELSE
              last' = Response(req, 200, getAllGrants, 1, FALSE)
    /\ UNCHANGED <<phase, pos, restarts, seen, tables, inflight>>

\* variant: the not-found test is left out
GrantMissing_Never(grant) == FALSE

\* if (!grant)
GrantMissing(grant) == IsMissing(grant)

\* GET /api/grants/:id
GetGrant(id, fault) ==
    /\ Serving
    /\ LET req == [route |-> "GET /api/grants/:id", id |-> id]
       IN  IF fault THEN
              last' = Caught(req, 1)
           ELSE IF GrantMissing(getGrantById(id)) THEN
              last' = Response(req, 404, [message |-> "Grant not found"], 1, FALSE)
           ELSE
              last' = Response(req, 200, getGrantById(id), 1, FALSE)
    /\ UNCHANGED <<phase, pos, restarts, seen, tables, inflight>>

\* GET /api/countries
GetCountries(fault) ==
    /\ Serving
    /\ LET req == [route |-> "GET /api/countries"]
       IN  IF fault THEN last' = Caught(req, 1)
           ELSE last' = Response(req, 200, getActiveCountries, 1, FALSE)
    /\ UNCHANGED <<phase, pos, restarts, seen, tables, inflight>>

\* GET /api/stats
GetStats(fault) ==
    /\ Serving
    /\ LET req == [route |-> "GET /api/stats"]
       IN  IF fault THEN last' = Caught(req, 1)
           ELSE last' = Response(req, 200, getGrantStats, 5, FALSE)
    /\ UNCHANGED <<phase, pos, restarts, seen, tables, inflight>>

\* GET /api/stats beside other requests: the handler up to the first await of
\* getGrantStats
GetStatsStart(h) ==
    /\ Serving
    /\ inflight[h] = Idle
    /\ inflight' = [inflight EXCEPT ![h] = [pc |-> "stats", results |-> <<StatsQuery(1)>>]]
    /\ last' = NoResponse
    /\ UNCHANGED <<phase, pos, restarts, seen, tables>>

\* the next statement of getGrantStats and, after the fifth, the response
GetStatsStep(h) ==
    /\ Serving
    /\ inflight[h].pc = "stats"
    /\ LET results == Append(inflight[h].results, StatsQuery(Len(inflight[h].results) + 1))
       IN  IF Len(results) < 5 THEN
              /\ inflight' = [inflight EXCEPT ![h] = [pc |-> "stats", results |-> results]]
              /\ last' = last
           ELSE
              /\ inflight' = [inflight EXCEPT ![h] = Idle]
              /\ last' = Response([route |-> "GET /api/stats"], 200, StatsResult(results),
                                  5, FALSE)
    /\ UNCHANGED <<phase, pos, restarts, seen, tables>>

\* one call of storage.updateApplication(id, { status }), which no route makes
UpdateApplicationCall(id, status) ==
    /\ Serving
    /\ id \in DOMAIN applications
    /\ applications[id].status # status
    /\ applications' = updateApplication(applications, id, [status |-> status])
    /\ last' = NoResponse
    /\ UNCHANGED <<phase, pos, restarts, seen, users, countries, grants, grantAwards,
                   contactMessages, inflight>>

\* one call of storage.updateGrant(id, { status }), which no route makes
UpdateGrantCall(id, status) ==
    /\ Serving
    /\ \E g \in Range(grants) : g.id = id /\ g.status # status
    /\ grants' = updateGrant(grants, id, [status |-> status])
    /\ last' = NoResponse
    /\ UNCHANGED <<phase, pos, restarts, seen, users, countries, applications,
                   grantAwards, contactMessages, inflight>>

\* GET /api/auth/user
GetAuthUser(u, fault) ==
    /\ Serving
    /\ Authenticated(u)
    /\ LET req == [route |-> "GET /api/auth/user", user |-> u]
       IN  IF fault THEN last' = Caught(req, 1)
           ELSE last' = Response(req, 200, getUser(u), 1, FALSE)
    /\ UNCHANGED <<phase, pos, restarts, seen, tables, inflight>>

\* GET /api/applications
GetApplications(u, fault) ==
    /\ Serving
    /\ Authenticated(u)
    /\ LET req == [route |-> "GET /api/applications", user |-> u]
       IN  IF fault THEN last' = Caught(req, 1)
           ELSE last' = Response(req, 200, getApplicationsByUser(u), 1, FALSE)
    /\ UNCHANGED <<phase, pos, restarts, seen, tables, inflight>>

\* GET /api/awards
GetAwards(u, fault) ==
    /\ Serving
    /\ Authenticated(u)
    /\ LET req == [route |-> "GET /api/awards", user |-> u]
       IN  IF fault THEN last' = Caught(req, 1)
           ELSE last' = Response(req, 200, getAwardsByUser(u), 1, FALSE)
    /\ UNCHANGED <<phase, pos, restarts, seen, tables, inflight>>

\* variant: no ownership check
IsOwner_Any(application, userId) == TRUE

\* if (application.userId !== userId) return res.status(403)
IsOwner(application, userId) == application.userId = userId

\* if (!application)
ApplicationMissing(application) == IsMissing(application)

\* GET /api/applications/:id
GetApplication(u, id, fault) ==
    /\ Serving
    /\ Authenticated(u)
    /\ LET req == [route |-> "GET /api/applications/:id", user |-> u, id |-> id]
       IN  IF fault THEN
              last' = Caught(req, 1)
           ELSE IF ApplicationMissing(getApplicationById(id)) THEN
              last' = Response(req, 404, [message |-> "Application not found"], 1, FALSE)
           ELSE IF ~IsOwner(getApplicationById(id), u) THEN
              last' = Response(req, 403, [message |-> "Access denied"], 1, FALSE)
           ELSE
              last' = Response(req, 200, getApplicationById(id), 1, FALSE)
    /\ UNCHANGED <<phase, pos, restarts, seen, tables, inflight>>

\* the routes registered with the isAuthenticated middleware
SessionRoutes ==
    {"GET /api/auth/user", "GET /api/applications", "POST /api/applications",
     "GET /api/applications/:id", "GET /api/awards"}

\* variant: the middleware is left off the POST route
Protected_ReadsOnly(route) == route \in SessionRoutes \ {"POST /api/applications"}

\* app.get(path, isAuthenticated, handler): the handler runs only after the middleware
Protected(route) == route \in SessionRoutes

\* a request that carries no session
NoSession == "NO_SESSION"

\* the middleware lets a request through only when its session holds a user
isAuthenticated(session) == session # NoSession

\* the middleware's answer to a request it turns down
Unauthorized(req) ==
    [req |-> req, status |-> 401, body |-> [message |-> "Unauthorized"], ops |-> 0,
     handler |-> FALSE, threw |-> FALSE]

\* a request without a session to a route whose handler reads req.user.claims.sub:
\* behind the middleware it is turned down; without it the handler's first statement
\* throws a TypeError, which its catch block answers
RequestWithoutSession(route) ==
    /\ Serving
    /\ route \in SessionRoutes
    /\ LET req == [route |-> route, user |-> NoSession]
       IN  IF Protected(route) /\ ~isAuthenticated(NoSession) THEN
              last' = Unauthorized(req)
           ELSE
              last' = Response(req, 500, [message |-> FailureMessage(route)], 0, FALSE)
    /\ UNCHANGED <<phase, pos, restarts, seen, tables, inflight>>

----------------------------------------------------------------------------
(* Specifications *)

\* bodies that pass insertApplicationSchema
ValidBodies ==
    [grantId : GrantIdInputs, referralName : ReferralInputs, userId : {"u2"},
     fullName : {Str_Al}]

\* bodies that do not: one without userId, one without the applicant's columns
InvalidBodies ==
    {[grantId |-> 1, referralName |-> NULL, userId |-> Absent, fullName |-> Str_Al],
     [grantId |-> 1, referralName |-> Str_al, userId |-> "u2", fullName |-> Undefined]}

PostBodies == ValidBodies \cup InvalidBodies

\* bodies without a referral
PlainBodies == [grantId : {1}, referralName : {NULL}, userId : {"u2"}, fullName : {Str_Al}]

AwardAmounts == {100}

\* the model stops taking submissions once MaxApps rows are stored or on their way
RoomForApplication ==
    Len(applications) + Cardinality({h \in DOMAIN inflight : inflight[h] # Idle}) < MaxApps

\* bodies of overlapping submissions
OverlapBodies ==
    [grantId : {1}, referralName : {NULL, Str_al}, userId : {"u2"}, fullName : {Str_Al}]

AppIdInputs == 1..MaxApps

\* failure-free start-up, then requests handled one at a time: a request is taken
\* up only when no handler is suspended
Next ==
    \/ InitializeCountriesGuard(FALSE)
    \/ InitializeCountriesInsert(FALSE)
    \/ InitializeGrantsGuard(FALSE)
    \/ InitializeGrantsInsert(FALSE)
    \/ \E u \in UserIds : NoneInFlight /\ Login(u)
    \/ \E a \in AppIdInputs, u \in UserIds, m \in AwardAmounts :
            NoneInFlight /\ RecordAward(a, u, m)
    \/ \E u \in UserIds, body \in PostBodies :
            NoneInFlight /\ RoomForApplication /\ PostApplicationsCheck(1, u, body, FALSE)
    \/ PostApplicationsReferral(1, FALSE)
    \/ \E draw \in BOOLEAN : PostApplicationsCreate(1, draw, FALSE)
    \/ NoneInFlight /\ GetStats(FALSE)
    \/ \E u \in UserIds, id \in AppIdInputs : NoneInFlight /\ GetApplication(u, id, FALSE)

Spec == Init /\ [][Next]_vars

\* start-up with database failures, restarts, and the public read of the seeded tables
BootNext ==
    \/ \E fault \in BOOLEAN : InitializeCountriesGuard(fault)
    \/ \E fault \in BOOLEAN : InitializeCountriesInsert(fault)
    \/ \E fault \in BOOLEAN : InitializeGrantsGuard(fault)
    \/ \E fault \in BOOLEAN : InitializeGrantsInsert(fault)
    \/ Restart
    \/ \E c \in CountryParams, k \in CategoryParams : GetGrants(c, k, FALSE)

BootSpec == Init /\ [][BootNext]_vars

\* the steps of registerRoutes before the routes are registered
Startup ==
    \/ \E fault \in BOOLEAN : InitializeCountriesGuard(fault)
    \/ \E fault \in BOOLEAN : InitializeCountriesInsert(fault)
    \/ \E fault \in BOOLEAN : InitializeGrantsGuard(fault)
    \/ \E fault \in BOOLEAN : InitializeGrantsInsert(fault)

\* the same, every awaited database statement settling (with a result or an error)
BootFairSpec == Init /\ [][BootNext]_vars /\ WF_vars(Startup)

\* failure-free start-up, applications without referral, awards, and the referral check
ReferralNext ==
    \/ InitializeCountriesGuard(FALSE)
    \/ InitializeCountriesInsert(FALSE)
    \/ InitializeGrantsGuard(FALSE)
    \/ InitializeGrantsInsert(FALSE)
    \/ \E u \in UserIds : NoneInFlight /\ Login(u)
    \/ \E a \in AppIdInputs, u \in UserIds, m \in AwardAmounts :
            NoneInFlight /\ RecordAward(a, u, m)
    \/ \E u \in UserIds, body \in PlainBodies :
            NoneInFlight /\ RoomForApplication /\ PostApplicationsCheck(1, u, body, FALSE)
    \/ \E draw \in BOOLEAN : PostApplicationsCreate(1, draw, FALSE)
    \/ \E n \in CheckInputs : NoneInFlight /\ PostCheckReferral(n, FALSE)

ReferralSpec == Init /\ [][ReferralNext]_vars

\* failure-free start-up, then POST /api/applications handlers that overlap: each
\* storage call of a handler is a step of its own
OverlapNext ==
    \/ InitializeCountriesGuard(FALSE)
    \/ InitializeCountriesInsert(FALSE)
    \/ InitializeGrantsGuard(FALSE)
    \/ InitializeGrantsInsert(FALSE)
    \/ \E u \in UserIds : NoneInFlight /\ Login(u)
    \/ \E a \in AppIdInputs, u \in UserIds, m \in AwardAmounts :
            NoneInFlight /\ RecordAward(a, u, m)
    \/ \E h \in 1..MaxInFlight, u \in UserIds, body \in OverlapBodies :
            RoomForApplication /\ PostApplicationsCheck(h, u, body, FALSE)
    \/ \E h \in 1..MaxInFlight : PostApplicationsReferral(h, FALSE)
    \/ \E h \in 1..MaxInFlight, draw \in BOOLEAN : PostApplicationsCreate(h, draw, FALSE)

OverlapSpec == Init /\ [][OverlapNext]_vars

\* bodies of POST /api/contact: one that passes insertContactMessageSchema (an empty
\* message is a string), one without firstName, one whose message is not a string
ContactBodies ==
    {[firstName |-> Str_Al, message |-> <<>>],
     [firstName |-> Undefined, message |-> Str_zz],
     [firstName |-> Str_Al, message |-> NotAString]}

\* failure-free start-up, then the three routes that take a payload, with payloads
\* that pass validation and payloads that do not
FormsNext ==
    \/ InitializeCountriesGuard(FALSE)
    \/ InitializeCountriesInsert(FALSE)
    \/ InitializeGrantsGuard(FALSE)
    \/ InitializeGrantsInsert(FALSE)
    \/ \E u \in UserIds : NoneInFlight /\ Login(u)
    \/ \E a \in AppIdInputs, u \in UserIds, m \in AwardAmounts :
            NoneInFlight /\ RecordAward(a, u, m)
    \/ \E u \in UserIds, body \in PlainBodies \cup InvalidBodies :
            NoneInFlight /\ RoomForApplication /\ PostApplicationsCheck(1, u, body, FALSE)
    \/ \E draw \in BOOLEAN : PostApplicationsCreate(1, draw, FALSE)
    \/ \E body \in ContactBodies : NoneInFlight /\ PostContact(body, FALSE)
    \/ \E n \in CheckInputs : NoneInFlight /\ PostCheckReferral(n, FALSE)

FormsSpec == Init /\ [][FormsNext]_vars

\* failure-free start-up, applications without referral, awards, and the reads of
\* applications, awards and single grants
ReadNext ==
    \/ InitializeCountriesGuard(FALSE)
    \/ InitializeCountriesInsert(FALSE)
    \/ InitializeGrantsGuard(FALSE)
    \/ InitializeGrantsInsert(FALSE)
    \/ \E u \in UserIds : NoneInFlight /\ Login(u)
    \/ \E a \in AppIdInputs, u \in UserIds, m \in AwardAmounts :
            NoneInFlight /\ RecordAward(a, u, m)
    \/ \E u \in UserIds, body \in PlainBodies :
            NoneInFlight /\ RoomForApplication /\ PostApplicationsCheck(1, u, body, FALSE)
    \/ \E draw \in BOOLEAN : PostApplicationsCreate(1, draw, FALSE)
    \/ \E u \in UserIds : NoneInFlight /\ GetApplications(u, FALSE)
    \/ \E u \in UserIds : NoneInFlight /\ GetAwards(u, FALSE)
    \/ \E id \in GrantIdInputs : NoneInFlight /\ GetGrant(id, FALSE)
    \/ \E u \in UserIds, id \in AppIdInputs : NoneInFlight /\ GetApplication(u, id, FALSE)

ReadSpec == Init /\ [][ReadNext]_vars

\* bodies of POST /api/applications sent to the whole REST surface
ApiBodies ==
    {[grantId |-> 1, referralName |-> NULL, userId |-> "u2", fullName |-> Str_Al],
     [grantId |-> 1, referralName |-> Str_al, userId |-> "u2", fullName |-> Str_Al],
     [grantId |-> 99, referralName |-> NULL, userId |-> "u2", fullName |-> Str_Al],
     [grantId |-> 1, referralName |-> NULL, userId |-> Absent, fullName |-> Str_Al]}

\* failure-free start-up, then every route of the REST surface, requests handled one
\* at a time, each storage operation free to throw, and requests without a session
ApiNext ==
    \/ InitializeCountriesGuard(FALSE)
    \/ InitializeCountriesInsert(FALSE)
    \/ InitializeGrantsGuard(FALSE)
    \/ InitializeGrantsInsert(FALSE)
    \/ \E u \in UserIds : NoneInFlight /\ Login(u)
    \/ \E a \in AppIdInputs, u \in UserIds, m \in AwardAmounts :
            NoneInFlight /\ RecordAward(a, u, m)
    \/ \E u \in UserIds, body \in ApiBodies, fault \in BOOLEAN :
            NoneInFlight /\ RoomForApplication /\ PostApplicationsCheck(1, u, body, fault)
    \/ \E fault \in BOOLEAN : PostApplicationsReferral(1, fault)
    \/ \E draw \in BOOLEAN, fault \in BOOLEAN : PostApplicationsCreate(1, draw, fault)
    \/ \E n \in {NULL, Str_al}, fault \in BOOLEAN : NoneInFlight /\ PostCheckReferral(n, fault)
    \/ \E body \in ContactBodies, fault \in BOOLEAN : NoneInFlight /\ PostContact(body, fault)
    \/ \E k \in {Absent, "bogus"}, fault \in BOOLEAN :
            NoneInFlight /\ GetGrants(Absent, k, fault)
    \/ \E id \in GrantIdInputs, fault \in BOOLEAN : NoneInFlight /\ GetGrant(id, fault)
    \/ \E fault \in BOOLEAN : NoneInFlight /\ GetCountries(fault)
    \/ \E fault \in BOOLEAN : NoneInFlight /\ GetStats(fault)
    \/ \E u \in UserIds, fault \in BOOLEAN : NoneInFlight /\ GetAuthUser(u, fault)
    \/ \E u \in UserIds, fault \in BOOLEAN : NoneInFlight /\ GetApplications(u, fault)
    \/ \E u \in UserIds, id \in {1, MaxApps}, fault \in BOOLEAN :
            NoneInFlight /\ GetApplication(u, id, fault)
    \/ \E u \in UserIds, fault \in BOOLEAN : NoneInFlight /\ GetAwards(u, fault)
    \/ \E route \in SessionRoutes : NoneInFlight /\ RequestWithoutSession(route)

ApiSpec == Init /\ [][ApiNext]_vars

\* profiles the identity provider may hand over
UserDataInputs ==
    [email : {Str_e1, Str_e2, NULL, Undefined}, firstName : {Str_Al, Undefined},
     lastName : {Str_Bo}]

\* failure-free start-up, then any sequence of upsertUser calls
UsersNext ==
    \/ InitializeCountriesGuard(FALSE)
    \/ InitializeCountriesInsert(FALSE)
    \/ InitializeGrantsGuard(FALSE)
    \/ InitializeGrantsInsert(FALSE)
    \/ \E u \in UserIds, userData \in UserDataInputs : UpsertUserCall(u, userData)

UsersSpec == Init /\ [][UsersNext]_vars

\* grant_awards tables over a database with `total` applications: none, one award,
\* two awards of one user, two awards of two users
AwardTables(total) ==
    LET w(n, u, m) == [id |-> n, grantId |-> 1, applicationId |-> 1, userId |-> u,
                       amount |-> m]
    IN  IF total = 0 THEN {<<>>}
        ELSE {<<>>, <<w(1, "u1", 100)>>, <<w(1, "u1", 100), w(2, "u1", 250)>>,
              <<w(1, "u1", 100), w(2, "u2", 250)>>}

\* countries tables: as seeded, and with one country switched off
CountryTables == {defaultCountries, [defaultCountries EXCEPT ![2].active = FALSE]}

\* a database holding `total` applications, `selected` of them selected
StatsTables(selected, total) ==
    /\ users = [u \in UserIds |-> UserRow(NoUsers, u, Claims(u))]
    /\ countries \in CountryTables
    /\ grants = [i \in 1..total |->
            [id |-> i, category |-> sampleGrants[(i % 8) + 1].category,
             countryId |-> sampleGrants[(i % 8) + 1].countryId, status |-> "active",
             totalSpots |-> 10, availableSpots |-> 10]]
    /\ applications = [i \in 1..total |->
            [id |-> i, grantId |-> i, userId |-> "u1", referralName |-> NULL,
             hasReferral |-> FALSE, autoQualified |-> TRUE,
             status |-> IF i <= selected THEN "selected" ELSE "qualified"]]
    /\ grantAwards \in AwardTables(total)
    /\ contactMessages = <<>>

StatsInit ==
    /\ phase = "serving" /\ pos = 0 /\ restarts = 0
    /\ seen = NothingSeen
    /\ inflight = [h \in 1..MaxInFlight |-> Idle]
    /\ last = NoResponse
    /\ \E total \in 0..MaxTotal : \E selected \in 0..total : StatsTables(selected, total)

\* getGrantStats applied to every such database
StatsSpec == StatsInit /\ [][GetStats(FALSE)]_vars

\* referral names given both to the check route and to a submission: whitespace
\* only, a recipient's name, the same with a trailing space, and no one's name
AgreeNames == {Str_sp, Str_al, Str_al_sp, Str_zz}

AgreeBodies == [grantId : {1}, referralName : AgreeNames, userId : {"u2"}, fullName : {Str_Al}]

\* failure-free start-up, awards, the referral check and submissions carrying the
\* same referral names, requests handled one at a time
AgreeNext ==
    \/ InitializeCountriesGuard(FALSE)
    \/ InitializeCountriesInsert(FALSE)
    \/ InitializeGrantsGuard(FALSE)
    \/ InitializeGrantsInsert(FALSE)
    \/ \E u \in UserIds : NoneInFlight /\ Login(u)
    \/ \E a \in AppIdInputs, u \in UserIds, m \in AwardAmounts :
            NoneInFlight /\ RecordAward(a, u, m)
    \/ \E u \in UserIds, body \in AgreeBodies \cup PlainBodies :
            NoneInFlight /\ RoomForApplication /\ PostApplicationsCheck(1, u, body, FALSE)
    \/ PostApplicationsReferral(1, FALSE)
    \/ \E draw \in BOOLEAN : PostApplicationsCreate(1, draw, FALSE)
    \/ \E n \in AgreeNames : NoneInFlight /\ PostCheckReferral(n, FALSE)

AgreeSpec == Init /\ [][AgreeNext]_vars

\* bodies that name another owner and an outcome of their own, and one whose status
\* is no value of application_status
ForgedBodies ==
    {[grantId |-> 1, referralName |-> NULL, userId |-> "u2", fullName |-> Str_Al,
      hasReferral |-> TRUE, autoQualified |-> TRUE, status |-> "selected"],
     [grantId |-> 1, referralName |-> Str_al, userId |-> "u1", fullName |-> Str_Al,
      hasReferral |-> FALSE, autoQualified |-> FALSE, status |-> "rejected"],
     [grantId |-> 1, referralName |-> Str_zz, userId |-> "u1", fullName |-> Str_Al,
      status |-> "awarded"],
     [grantId |-> 1, referralName |-> NULL, userId |-> "u1", fullName |-> Str_Al,
      status |-> "bogus"]}

\* failure-free start-up, awards, and submissions whose bodies carry userId,
\* hasReferral, autoQualified and status, requests handled one at a time
ForgeNext ==
    \/ InitializeCountriesGuard(FALSE)
    \/ InitializeCountriesInsert(FALSE)
    \/ InitializeGrantsGuard(FALSE)
    \/ InitializeGrantsInsert(FALSE)
    \/ \E u \in UserIds : NoneInFlight /\ Login(u)
    \/ \E a \in AppIdInputs, u \in UserIds, m \in AwardAmounts :
            NoneInFlight /\ RecordAward(a, u, m)
    \/ \E u \in UserIds, body \in ForgedBodies \cup PlainBodies :
            NoneInFlight /\ RoomForApplication /\ PostApplicationsCheck(1, u, body, FALSE)
    \/ PostApplicationsReferral(1, FALSE)
    \/ \E draw \in BOOLEAN : PostApplicationsCreate(1, draw, FALSE)

ForgeSpec == Init /\ [][ForgeNext]_vars

\* what an applicant types into either client form
FormInputs == [grantId : {1}, name : {Str_Al}, referralName : {<<>>, Str_al}]

\* pages/apply.tsx: apiRequest("POST", "/api/applications", data) with the fields of
\* applicationSchema (grantId, firstName, lastName, email, phone, country, category,
\* situation, referralName, terms): no userId, no fullName, address or
\* reasonForApplying
ApplyPagePayload(data) ==
    [form |-> "Apply", grantId |-> data.grantId, referralName |-> data.referralName,
     userId |-> Absent, fullName |-> Undefined, firstName |-> data.name]

\* ApplicationModal: body: data with the fields of insertApplicationSchema.omit({
\* userId: true }): fullName and the other applicant columns, no userId
ModalPayload(data) ==
    [form |-> "ApplicationModal", grantId |-> data.grantId,
     referralName |-> data.referralName, userId |-> Absent, fullName |-> data.name]

ClientPayloads ==
    {ApplyPagePayload(data) : data \in FormInputs} \cup
    {ModalPayload(data) : data \in FormInputs}

\* failure-free start-up, then submissions from the two client forms and, beside
\* them, requests whose body carries every required column
ClientNext ==
    \/ InitializeCountriesGuard(FALSE)
    \/ InitializeCountriesInsert(FALSE)
    \/ InitializeGrantsGuard(FALSE)
    \/ InitializeGrantsInsert(FALSE)
    \/ \E u \in UserIds : NoneInFlight /\ Login(u)
    \/ \E u \in UserIds, body \in ClientPayloads \cup PlainBodies :
            NoneInFlight /\ RoomForApplication /\ PostApplicationsCheck(1, u, body, FALSE)
    \/ \E draw \in BOOLEAN : PostApplicationsCreate(1, draw, FALSE)

ClientSpec == Init /\ [][ClientNext]_vars

\* failure-free start-up, then every route of the REST surface and the login
\* callback, requests handled one at a time: nothing but what registerRoutes offers
RestNext ==
    \/ InitializeCountriesGuard(FALSE)
    \/ InitializeCountriesInsert(FALSE)
    \/ InitializeGrantsGuard(FALSE)
    \/ InitializeGrantsInsert(FALSE)
    \/ \E u \in UserIds : NoneInFlight /\ Login(u)
    \/ \E u \in UserIds, body \in OverlapBodies :
            NoneInFlight /\ RoomForApplication /\ PostApplicationsCheck(1, u, body, FALSE)
    \/ PostApplicationsReferral(1, FALSE)
    \/ \E draw \in BOOLEAN : PostApplicationsCreate(1, draw, FALSE)
    \/ \E n \in {Str_al, Str_sp} : NoneInFlight /\ PostCheckReferral(n, FALSE)
    \/ \E body \in ContactBodies : NoneInFlight /\ PostContact(body, FALSE)
    \/ \E c \in {Absent, "usa"} : NoneInFlight /\ GetGrants(c, Absent, FALSE)
    \/ \E id \in GrantIdInputs : NoneInFlight /\ GetGrant(id, FALSE)
    \/ NoneInFlight /\ GetCountries(FALSE)
    \/ NoneInFlight /\ GetStats(FALSE)
    \/ \E u \in UserIds : NoneInFlight /\ GetAuthUser(u, FALSE)
    \/ \E u \in UserIds : NoneInFlight /\ GetApplications(u, FALSE)
    \/ \E u \in UserIds, id \in {1, MaxApps} : NoneInFlight /\ GetApplication(u, id, FALSE)
    \/ \E u \in UserIds : NoneInFlight /\ GetAwards(u, FALSE)
    \/ \E route \in SessionRoutes : NoneInFlight /\ RequestWithoutSession(route)

RestSpec == Init /\ [][RestNext]_vars

\* failure-free start-up, then GET /api/stats in slot 2, its five statements each a
\* step, beside submissions in slot 1 and calls of updateApplication
StatsRaceNext ==
    \/ InitializeCountriesGuard(FALSE)
    \/ InitializeCountriesInsert(FALSE)
    \/ InitializeGrantsGuard(FALSE)
    \/ InitializeGrantsInsert(FALSE)
    \/ \E u \in UserIds : Login(u)
    \/ \E u \in UserIds, body \in PlainBodies :
            RoomForApplication /\ PostApplicationsCheck(1, u, body, FALSE)
    \/ \E draw \in BOOLEAN : PostApplicationsCreate(1, draw, FALSE)
    \/ \E id \in AppIdInputs, status \in {"selected", "rejected"} :
            UpdateApplicationCall(id, status)
    \/ GetStatsStart(2)
    \/ GetStatsStep(2)

StatsRaceSpec == Init /\ [][StatsRaceNext]_vars

\* failure-free start-up, then grants closed, withdrawn to draft and reopened, and
\* GET /api/grants with every combination of the two query parameters
GrantsNext ==
    \/ InitializeCountriesGuard(FALSE)
    \/ InitializeCountriesInsert(FALSE)
    \/ InitializeGrantsGuard(FALSE)
    \/ InitializeGrantsInsert(FALSE)
    \/ \E id \in {1, 2, 8}, status \in grantStatusEnum : UpdateGrantCall(id, status)
    \/ \E c \in CountryParams, k \in CategoryParams : GetGrants(c, k, FALSE)

GrantsSpec == Init /\ [][GrantsNext]_vars

----------------------------------------------------------------------------
(* The claims *)

Accepted == last.req.route = "POST /api/applications" /\ last.status = 201

StoredRow == last.body.application

\* some award recipient's full name contains `name`, case-insensitively
SubstringMatch(name) ==
    \E i \in DOMAIN grantAwards : Contains(RecipientName(grantAwards[i]), name)

\* C1: when POST /api/applications requests are handled one at a time, the
\* applications table holds at most one row for every (userId, grantId) pair.
C1_AtMostOnePerPair ==
    \A i, j \in DOMAIN applications :
        (applications[i].userId = applications[j].userId
            /\ applications[i].grantId = applications[j].grantId) => i = j

\* a repeated submission was turned down after both users had applied
C1_Witness ==
    /\ last.status = 400
    /\ last.body.message = "You have already applied to this grant"
    /\ Len(applications) = 2

\* C2: two overlapping POST /api/applications handlers for one (user, grant) pair can
\* both pass the duplicate check before either inserts: a handler that passed the
\* check inserts its row whatever has been stored since, so two rows for one pair
\* are reachable (C2_Witness).
C2_PassedCheckInserts ==
    [][\A h \in DOMAIN inflight :
          (inflight[h] # Idle /\ inflight'[h] = Idle
              /\ \E g \in Range(grants) : g.id = inflight[h].grantId)
          => /\ Len(applications') = Len(applications) + 1
             /\ applications'[Len(applications')].userId = inflight[h].user
             /\ applications'[Len(applications')].grantId = inflight[h].grantId
             /\ last'.status = 201]_vars

C2_Witness ==
    \E i, j \in DOMAIN applications :
        /\ i # j
        /\ applications[i].userId = applications[j].userId
        /\ applications[i].grantId = applications[j].grantId

QualifiedByReferral ==
    /\ StoredRow.autoQualified = TRUE
    /\ StoredRow.hasReferral = TRUE
    /\ StoredRow.status = "qualified"
    /\ applications[StoredRow.id] = StoredRow

\* C3 as stated: every accepted submission whose referralName is contained in an award
\* recipient's full name is stored auto-qualified, with hasReferral, as 'qualified'.
C3_Original ==
    (Accepted /\ last.req.referralName # NULL /\ SubstringMatch(last.req.referralName))
        => QualifiedByReferral

\* C3 as amended: every accepted submission whose referralName is non-empty after
\* trimming and is matched by the referral lookup is stored auto-qualified, with
\* hasReferral, as 'qualified', whatever the random draw would have been.
C3_ReferralQualifies ==
    (Accepted /\ ReferralGiven(last.req.referralName)
        /\ checkReferralExists(last.req.referralName))
        => QualifiedByReferral

C3_Witness ==
    /\ Accepted
    /\ last.req.referralName = Str_al
    /\ SubstringMatch(Str_al)
    /\ StoredRow.hasReferral

\* C4: an accepted submission with no referralName, a whitespace-only one, or one that
\* is contained in no award recipient's name is stored with hasReferral = false, its
\* autoQualified decided by the random draw and its status following autoQualified.
C4_Original ==
    (Accepted /\ (\/ last.req.referralName = NULL
                  \/ Trim(last.req.referralName) = <<>>
                  \/ ~SubstringMatch(last.req.referralName)))
        => /\ StoredRow.hasReferral = FALSE
           /\ last.body.drawn
           /\ StoredRow.status = StatusOf(StoredRow.autoQualified)

\* C5: POST /api/check-referral answers exists = true exactly when some award
\* recipient's full name contains the name as a case-insensitive substring, whatever
\* characters the name is made of, and autoQualified equals exists.
C5_Original ==
    (last.req.route = "POST /api/check-referral" /\ last.status = 200)
        => /\ last.body.exists = SubstringMatch(last.req.referralName)
           /\ last.body.autoQualified = last.body.exists

SelectedCount == Cardinality({i \in DOMAIN applications : applications[i].status = "selected"})

\* C6: successRate is 0 for an empty applications table and otherwise
\* selected / total * 100 rounded to the nearest integer, a half rounded up.
C6_Original ==
    last.req.route = "GET /api/stats"
        => last.body.successRate =
              (IF Len(applications) = 0 THEN 0
               ELSE ExactPercent(SelectedCount, Len(applications)))

\* C7: a start-up run that finds the countries table and the grants table both
\* non-empty inserts no row: both tables stay as the run found them.
C7_NoInsertWhenNonEmpty ==
    (seen.countriesRead /\ seen.grantsRead
        /\ Len(seen.countries) > 0 /\ Len(seen.grants) > 0)
        => countries = seen.countries /\ grants = seen.grants

\* a second run has finished over the fully seeded tables
C7_Witness ==
    /\ restarts >= 1 /\ phase = "serving"
    /\ seen.countriesRead /\ seen.grantsRead
    /\ Len(seen.countries) = 14 /\ Len(seen.grants) = 8

PartiallySeeded(rows, defaults) == 0 < Len(rows) /\ Len(rows) < Len(defaults)

IsPrefix(a, b) == Len(a) <= Len(b) /\ SubSeq(b, 1, Len(a)) = a

\* C8: when an insert fails part-way through seeding, the rows already inserted stay
\* (no rollback), the rest of the list is not inserted, and no later start-up run
\* inserts the missing rows: a seeding loop runs only in a run that found its table
\* empty, and outside its loop a partially seeded table never changes.
C8_PartialSeedingStays ==
    [][/\ IsPrefix(countries, countries') /\ IsPrefix(grants, grants')
       /\ (PartiallySeeded(countries, defaultCountries)
              /\ ~(phase = "countries" /\ pos >= 1)) => countries' = countries
       /\ (PartiallySeeded(grants, sampleGrants)
              /\ ~(phase = "grants" /\ pos >= 1)) => grants' = grants
       /\ (phase' = "countries" /\ pos' >= 1)
              => seen'.countriesRead /\ Len(seen'.countries) = 0
       /\ (phase' = "grants" /\ pos' >= 1)
              => seen'.grantsRead /\ Len(seen'.grants) = 0]_vars

\* a later run has finished and the table still holds 3 of the 14 countries
C8_Witness ==
    /\ restarts >= 1 /\ phase = "serving"
    /\ Len(countries) = 3
    /\ seen.countriesRead /\ Len(seen.countries) = 3

\* C9: GET /api/grants carrying a category parameter returns only grants of that
\* category, whatever other query parameters are present.
C9_Original ==
    (last.req.route = "GET /api/grants" /\ last.status = 200
        /\ ParamGiven(last.req.category))
        => \A i \in DOMAIN last.body : last.body[i].category = last.req.category

\* C10: GET /api/applications/:id returns the application only to its owner; for an
\* existing application of another user it answers 403 and no field of the application.
C10_OwnerOnly ==
    last.req.route = "GET /api/applications/:id"
        => /\ last.status = 200
                => /\ last.req.id \in DOMAIN applications
                   /\ applications[last.req.id].userId = last.req.user
                   /\ last.body = getApplicationById(last.req.id)
           /\ (last.req.id \in DOMAIN applications
                 /\ applications[last.req.id].userId # last.req.user)
                => /\ last.status = 403
                   /\ last.body = [message |-> "Access denied"]

C10_Witness ==
    /\ last.req.route = "GET /api/applications/:id"
    /\ last.status = 403
    /\ last.req.id \in DOMAIN applications

\* the stored columns of a joined application row
StoredColumns(a) ==
    [id |-> a.id, grantId |-> a.grantId, userId |-> a.userId,
     referralName |-> a.referralName, hasReferral |-> a.hasReferral,
     autoQualified |-> a.autoQualified, status |-> a.status]

\* C11: GET /api/applications and GET /api/awards return exactly the application
\* rows, respectively the award rows, whose userId is the session's user id: every
\* returned row is a stored row of that user, and every stored row of that user is
\* returned once, so rows of other users have no part in the response.
C11_OwnRowsOnly ==
    /\ (last.req.route = "GET /api/applications" /\ last.status = 200)
          => /\ \A i \in DOMAIN last.body :
                   /\ last.body[i].userId = last.req.user
                   /\ last.body[i].id \in DOMAIN applications
                   /\ StoredColumns(last.body[i]) = applications[last.body[i].id]
             /\ \A k \in DOMAIN applications :
                   applications[k].userId = last.req.user
                      => Cardinality({i \in DOMAIN last.body : last.body[i].id = k}) = 1
    /\ (last.req.route = "GET /api/awards" /\ last.status = 200)
          => /\ \A i \in DOMAIN last.body :
                   /\ last.body[i].userId = last.req.user
                   /\ last.body[i].id \in DOMAIN grantAwards
                   /\ last.body[i] = grantAwards[last.body[i].id]
             /\ \A k \in DOMAIN grantAwards :
                   grantAwards[k].userId = last.req.user
                      => Cardinality({i \in DOMAIN last.body : last.body[i].id = k}) = 1

\* a user's applications were returned while another user's application is stored
C11_Witness ==
    /\ last.req.route = "GET /api/applications" /\ last.status = 200
    /\ Len(last.body) >= 1
    /\ \E k \in DOMAIN applications : applications[k].userId # last.req.user

\* C12: GET /api/grants/:id answers 404 exactly when no grant has that id, GET
\* /api/applications/:id answers 404 exactly when no application has that id (also
\* for a caller who would not own it), and neither request changes a stored row.
C12_NotFound ==
    [][/\ last'.req.route = "GET /api/grants/:id"
            => (last'.status = 404 <=> ~\E g \in Range(grants') : g.id = last'.req.id)
       /\ last'.req.route = "GET /api/applications/:id"
            => (last'.status = 404 <=> last'.req.id \notin DOMAIN applications')
       /\ (last' # last /\ last'.req.route \in {"GET /api/grants/:id",
                                                "GET /api/applications/:id"})
            => tables' = tables]_vars

\* an application id that no row has was answered 404 while applications are stored
C12_Witness ==
    /\ last.status = 404
    /\ last.req.route = "GET /api/applications/:id"
    /\ Len(grants) > 0 /\ Len(applications) > 0

\* a value that is not a string: left out, null, or of another JSON type
NotAStringValue(v) == v = Undefined \/ v = NULL \/ v = NotAString

\* C13: a request whose payload fails validation is answered 400, runs no storage
\* operation and leaves every table unchanged: POST /api/applications and POST
\* /api/contact with a body that lacks a required field or gives it a value that is
\* not a string, POST /api/check-referral with referralName missing, empty or not a
\* string.
C13_InvalidRejected ==
    [][(/\ last' # last
        /\ \/ /\ last'.req.route = "POST /api/applications"
              /\ last'.req.bodyUserId = Absent \/ NotAStringValue(last'.req.fullName)
           \/ /\ last'.req.route = "POST /api/contact"
              /\ \/ NotAStringValue(last'.req.body.firstName)
                 \/ NotAStringValue(last'.req.body.message)
           \/ /\ last'.req.route = "POST /api/check-referral"
              /\ NotAStringValue(last'.req.referralName) \/ last'.req.referralName = <<>>)
       => /\ last'.status = 400
          /\ last'.ops = 0
          /\ tables' = tables
          /\ inflight' = inflight]_vars

\* an application body without userId was turned down while a contact message is stored
C13_Witness ==
    /\ last.req.route = "POST /api/applications"
    /\ last.req.bodyUserId = Absent
    /\ last.status = 400
    /\ Len(contactMessages) > 0

HasRow(rows, userId, grantId) ==
    \E r \in Range(rows) : r.userId = userId /\ r.grantId = grantId

\* C14: a valid POST /api/applications for a (user, grant) pair that already has an
\* application row is answered 400 after the duplicate check alone (one storage
\* operation: no referral lookup, no draw, no insert), every table stays as it was,
\* and no handler goes on past the check for such a pair.
C14_DuplicateRejected ==
    [][/\ \A h \in DOMAIN inflight :
            (inflight[h] = Idle /\ inflight'[h] # Idle)
                => ~HasRow(applications, inflight'[h].user, inflight'[h].grantId)
       /\ (/\ last' # last
           /\ last'.req.route = "POST /api/applications"
           /\ last'.req.bodyUserId # Absent /\ last'.req.fullName # Undefined
           /\ HasRow(applications, last'.req.user, last'.req.grantId))
            => /\ last'.status = 400
               /\ last'.body = [message |-> "You have already applied to this grant"]
               /\ last'.ops = 1
               /\ tables' = tables
               /\ inflight' = inflight]_vars

\* a second submission with a referral name was turned down for the pair
C14_Witness ==
    /\ last.req.route = "POST /api/applications"
    /\ last.status = 400 /\ last.ops = 1
    /\ last.req.referralName = Str_al
    /\ HasRow(applications, last.req.user, last.req.grantId)

\* C15: an accepted POST /api/applications inserts exactly one application row, the
\* one it returns, and changes nothing else: grants (availableSpots and totalSpots
\* included), users, countries, contact messages and awards stay as they were,
\* whether the application is qualified or not.
C15_OneRowOnly ==
    [][(last' # last /\ last'.req.route = "POST /api/applications" /\ last'.status = 201)
        => /\ applications' = Append(applications, last'.body.application)
           /\ last'.body.application.id \notin DOMAIN applications
           /\ UNCHANGED <<users, countries, grants, grantAwards, contactMessages>>]_vars

\* a not-qualified application was accepted while awards and contact messages exist
C15_Witness ==
    /\ last.req.route = "POST /api/applications" /\ last.status = 201
    /\ ~last.body.qualified
    /\ Len(grantAwards) > 0 /\ Len(contactMessages) > 0

\* C16: every application row has status 'qualified' or 'not_qualified' from the
\* moment POST /api/applications stores it, never 'pending', and no step of any REST
\* route changes the status of a stored row, so the other statuses are never reached.
C16_StatusFixedAtSubmission ==
    [][/\ \A i \in DOMAIN applications' :
            applications'[i].status \in {"qualified", "not_qualified"}
       /\ \A i \in DOMAIN applications :
            i \in DOMAIN applications' /\ applications'[i].status = applications[i].status]_vars

\* a qualified and a not-qualified application are stored and a later request was served
C16_Witness ==
    /\ \E i, j \in DOMAIN applications :
          applications[i].status = "qualified" /\ applications[j].status = "not_qualified"
    /\ last.req.route = "GET /api/applications" /\ last.status = 200

\* C17: a request without an authenticated session to GET /api/auth/user, GET
\* /api/applications, POST /api/applications, GET /api/applications/:id or GET
\* /api/awards does not reach the route handler: it runs no storage operation and
\* changes no row.
C17_NoSessionNoHandler ==
    [][(/\ last' # last
        /\ last'.req.route \in SessionRoutes
        /\ last'.req.user = NoSession)
       => /\ last'.handler = FALSE
          /\ last'.ops = 0
          /\ tables' = tables
          /\ inflight' = inflight]_vars

\* a submission without a session was turned down while applications are stored
C17_Witness ==
    /\ last.req.route = "POST /api/applications"
    /\ last.req.user = NoSession
    /\ last.status = 401
    /\ Len(applications) > 0

ResponseStatuses == {200, 201, 400, 401, 403, 404, 500}

\* C18: in every route handler a storage operation that throws is answered with
\* status 500 and a message, and every request that was handled got a response: no
\* exception leaves a handler unanswered.
C18_StorageErrorIs500 ==
    /\ last.threw => (last.status = 500 /\ DOMAIN last.body = {"message"})
    /\ last.req.route # "none" => last.status \in ResponseStatuses

\* the insert of a submission threw after the duplicate check and the referral lookup
C18_Witness ==
    /\ last.req.route = "POST /api/applications"
    /\ last.threw /\ last.ops = 3 /\ last.status = 500

\* a field of the latest call that the row must hold
Holds(stored, given) == given = Undefined \/ stored = given

\* C19: after any sequence of upsertUser calls the id of the latest call has a row,
\* and that row holds the profile fields the latest call gave.
C19_Original ==
    last.req.route = "upsertUser"
        => /\ last.req.user \in DOMAIN users
           /\ Holds(users[last.req.user].email, last.req.userData.email)
           /\ Holds(users[last.req.user].firstName, last.req.userData.firstName)
           /\ Holds(users[last.req.user].lastName, last.req.userData.lastName)

RECURSIVE AmountUpTo(_)
AmountUpTo(n) == IF n = 0 THEN 0 ELSE grantAwards[n].amount + AmountUpTo(n - 1)

\* C20: with no write under way, GET /api/stats reports totalGrantsDistributed = the
\* sum of the amounts of all award rows (0 without rows), totalRecipients = the number
\* of award rows (two awards of one user count twice) and totalCountries = the number
\* of countries whose active flag is true.
C20_StatsTotals ==
    (last.req.route = "GET /api/stats" /\ last.status = 200)
        => /\ last.body.totalGrantsDistributed = AmountUpTo(Len(grantAwards))
           /\ last.body.totalRecipients = Cardinality(DOMAIN grantAwards)
           /\ last.body.totalCountries = Cardinality({c \in Range(countries) : c.active})

\* the statistics were read over two awards of one user and a country switched off
C20_Witness ==
    /\ last.req.route = "GET /api/stats" /\ last.status = 200
    /\ Len(grantAwards) = 2 /\ grantAwards[1].userId = grantAwards[2].userId
    /\ \E c \in Range(countries) : ~c.active
    /\ last.body.totalRecipients = 2

\* C21 as stated: a POST /api/applications whose body passes validation but whose
\* grantId matches no grant inserts no application row and is answered with 404.
C21_Original ==
    (/\ last.req.route = "POST /api/applications" /\ last.handler
     /\ last.req.bodyUserId # Absent /\ last.req.fullName # Undefined
     /\ ~\E g \in Range(grants) : g.id = last.req.grantId)
        => /\ last.status = 404
           /\ ~\E a \in Range(applications) : a.grantId = last.req.grantId

\* C22 as stated: in a fixed database state, when POST /api/check-referral answers
\* exists = true for a referralName (any string that route accepts), an accepted POST
\* /api/applications carrying the same string is stored with hasReferral = true and
\* status 'qualified'.
C22_Original ==
    (/\ Accepted
     /\ Truthy(last.req.referralName) /\ last.req.referralName # NotAString
     /\ checkReferralExists(last.req.referralName))
        => /\ StoredRow.hasReferral = TRUE
           /\ StoredRow.status = "qualified"

\* C23: the body chooses neither the owner nor the outcome: every accepted POST
\* /api/applications stores the session's user id as userId, the result of the
\* server's referral lookup as hasReferral, the server's qualification as
\* autoQualified and the status that follows from it, whatever userId, hasReferral,
\* autoQualified or status the body carried.
C23_BodyCannotChoose ==
    Accepted =>
        /\ applications[StoredRow.id] = StoredRow
        /\ StoredRow.userId = last.req.user
        /\ StoredRow.hasReferral =
                (/\ Truthy(last.req.referralName) /\ Truthy(Trim(last.req.referralName))
                 /\ checkReferralExists(last.req.referralName))
        /\ StoredRow.autoQualified = last.body.qualified
        /\ StoredRow.hasReferral => StoredRow.autoQualified
        /\ StoredRow.status =
                (IF last.body.qualified THEN "qualified" ELSE "not_qualified")

\* a body naming another user, hasReferral, autoQualified and 'selected' was accepted
\* and stored for the session's user, without referral and not qualified
C23_Witness ==
    /\ Accepted
    /\ last.req.body.userId # last.req.user
    /\ "status" \in DOMAIN last.req.body /\ last.req.body.status = "selected"
    /\ last.req.body.hasReferral /\ last.req.body.autoQualified
    /\ StoredRow.userId = last.req.user
    /\ ~StoredRow.hasReferral /\ StoredRow.status = "not_qualified"

\* C24 as stated: a submission that either client form posts for an existing grant,
\* every field filled with valid values, creates an application row (201) unless the
\* applicant has applied to the grant before; it is never a validation error.
C24_Original ==
    (/\ last.req.route = "POST /api/applications" /\ last.handler
     /\ "form" \in DOMAIN last.req.body
     /\ \E g \in Range(grants) : g.id = last.req.grantId)
        => \/ last.status = 201
           \/ HasRow(applications, last.req.user, last.req.grantId)

\* C25: every stored application row has autoQualified = true whenever hasReferral =
\* true, status 'qualified' exactly when autoQualified = true and status
\* 'not_qualified' exactly when autoQualified = false.
C25_RowsConsistent ==
    \A i \in DOMAIN applications :
        /\ applications[i].hasReferral => applications[i].autoQualified
        /\ (applications[i].status = "qualified") = applications[i].autoQualified
        /\ (applications[i].status = "not_qualified") = ~applications[i].autoQualified

\* a row stored with a referral beside a row that did not qualify
C25_Witness ==
    \E i, j \in DOMAIN applications :
        /\ applications[i].hasReferral /\ applications[i].status = "qualified"
        /\ ~applications[j].autoQualified /\ applications[j].status = "not_qualified"

\* C26: starting from an empty grant_awards table, the REST routes and the bootstrap
\* never create an award: the table stays empty, POST /api/check-referral always
\* answers exists = false, no stored application has hasReferral = true, and GET
\* /api/stats always reports totalGrantsDistributed, totalRecipients and successRate 0.
C26_NoAwardEver ==
    /\ grantAwards = <<>>
    /\ \A i \in DOMAIN applications : applications[i].hasReferral = FALSE
    /\ (last.req.route = "POST /api/check-referral" /\ last.status = 200)
            => last.body.exists = FALSE
    /\ (last.req.route = "GET /api/stats" /\ last.status = 200)
            => /\ last.body.totalGrantsDistributed = 0
               /\ last.body.totalRecipients = 0
               /\ last.body.successRate = 0

\* the users are logged in, an application naming user u1 as referral is stored, and
\* the check of that name was answered
C26_Witness ==
    /\ DOMAIN users = UserIds
    /\ \E i \in DOMAIN applications : applications[i].referralName = Str_al
    /\ last.req.route = "POST /api/check-referral" /\ last.status = 200
    /\ last.req.referralName = Str_al

\* C27 as stated: the successRate that getGrantStats returns lies between 0 and 100
\* inclusive, also when its count queries interleave with createApplication and
\* updateApplication calls.
C27_Original ==
    (last.req.route = "GET /api/stats" /\ last.status = 200)
        => last.body.successRate \in 0..100

\* C28: a seeding failure never aborts start-up: a failed insert of initializeCountries
\* is swallowed and initializeGrants is attempted next, a failed insert of
\* initializeGrants is swallowed and the routes are registered next, and every
\* start-up, whatever fails in it, ends with the routes registered.
C28_SeedingFailureSwallowed ==
    /\ [][(phase = "countries" /\ pos >= 1 /\ countries' = countries)
            => (phase' = "grants" /\ pos' = 0)]_vars
    /\ [][(phase = "grants" /\ pos >= 1 /\ grants' = grants)
            => (phase' = "serving" /\ pos' = 0)]_vars
    /\ [](phase \in {"countries", "grants", "serving"})
    /\ []((phase # "serving") => <>(phase = "serving"))

\* an insert of initializeCountries failed in this run (the table was found empty and
\* is left partly seeded), initializeGrants read the grants table after it, and a
\* registered route has answered
C28_Witness ==
    /\ phase = "serving"
    /\ seen.countriesRead /\ seen.countries = <<>>
    /\ Len(countries) \in 1..(Len(defaultCountries) - 1)
    /\ seen.grantsRead
    /\ last.req.route = "GET /api/grants" /\ last.status = 200

\* C29: in a failure-free start-up from an empty database the countries are seeded
\* before the first grant and before any route is served, and once the routes are
\* served there are exactly 14 countries, all active, and 8 grants, all 'active',
\* each with availableSpots = totalSpots and the id of a seeded country as countryId.
C29_SeededBeforeServing ==
    /\ grants # <<>> => Len(countries) = 14
    /\ (last # NoResponse \/ ~NoneInFlight) => phase = "serving"
    /\ phase = "serving" =>
          /\ Len(countries) = 14
          /\ \A i \in DOMAIN countries : countries[i].active = TRUE
          /\ Len(grants) = 8
          /\ \A i \in DOMAIN grants :
                /\ grants[i].status = "active"
                /\ grants[i].availableSpots = grants[i].totalSpots
                /\ \E j \in DOMAIN countries : countries[j].id = grants[i].countryId

\* after the start-up the first seeded grant was read together with its country
C29_Witness ==
    /\ phase = "serving" /\ restarts = 0
    /\ last.req.route = "GET /api/grants/:id" /\ last.status = 200
    /\ last.body.countryId = "usa" /\ last.body.countries.id = "usa"
    /\ last.body.availableSpots = 750

\* the response lists each of the grants `ids` once and nothing else
ListsExactly(body, ids) ==
    /\ {body[i].id : i \in DOMAIN body} = ids
    /\ Len(body) = Cardinality(ids)

\* C30 as stated: GET /api/grants carrying a country parameter returns exactly the
\* grants whose countryId equals it; with neither country nor category it returns
\* every grant row, whatever its status; the request changes no stored row.
C30_Original ==
    /\ []((last.req.route = "GET /api/grants" /\ last.status = 200) =>
            /\ last.req.country # Absent =>
                  ListsExactly(last.body,
                      {g.id : g \in {x \in Range(grants) : x.countryId = last.req.country}})
            /\ (last.req.country = Absent /\ last.req.category = Absent) =>
                  ListsExactly(last.body, {g.id : g \in Range(grants)}))
    /\ [][last'.req.route = "GET /api/grants" => UNCHANGED tables]_vars

\* C30 as amended: GET /api/grants carrying a non-empty country parameter returns
\* exactly the grants whose countryId equals it; with country and category both absent
\* or empty it returns every grant row, whatever its status; the request changes no
\* stored row.
C30_GrantsListed ==
    /\ []((last.req.route = "GET /api/grants" /\ last.status = 200) =>
            /\ last.req.country \notin {Absent, ""} =>
                  ListsExactly(last.body,
                      {g.id : g \in {x \in Range(grants) : x.countryId = last.req.country}})
            /\ (last.req.country \in {Absent, ""} /\ last.req.category \in {Absent, ""}) =>
                  /\ ListsExactly(last.body, {g.id : g \in Range(grants)})
                  /\ \A g \in Range(grants) : \E i \in DOMAIN last.body :
                        last.body[i].id = g.id /\ last.body[i].status = g.status)
    /\ [][last'.req.route = "GET /api/grants" => UNCHANGED tables]_vars

\* every grant was listed while one grant is closed and another is a draft
C30_Witness ==
    /\ last.req.route = "GET /api/grants" /\ last.status = 200
    /\ last.req.country = Absent /\ last.req.category = Absent
    /\ Len(last.body) = 8
    /\ \E i, j \in DOMAIN last.body :
          last.body[i].status = "closed" /\ last.body[j].status = "draft"

====
